---- MODULE Spec2Model ----
(***************************************************************************)
(* Model of the two Blender automation scripts of RobloxFormatting:        *)
(*   bpyauto.py   prepare_for_roblox  (the eight-step preparation pipeline)*)
(*   glbtoobj.py  batch_convert_glb_to_obj / convert_glb_to_obj            *)
(* The host (Blender) scene, the file system and the Python locals of the  *)
(* running call are the state.  Every statement of a step is a micro       *)
(* operation applied in source order; a host operator may raise at any     *)
(* point, which ends the step and transfers control to the except clause.  *)
(* Paths are sequences of tokens: "/" is the separator, every other token  *)
(* is a run of characters that contains no separator.                      *)
(***************************************************************************)
EXTENDS Integers, Sequences, FiniteSets, TLC

VARIABLES env, env0, cfg, pc, result,
          listing, todo, scene, outDirs, outFiles, calls, errLog, objExports,
          lastFailed, bpc

vars == <<env, env0, cfg, pc, result,
          listing, todo, scene, outDirs, outFiles, calls, errLog, objExports,
          lastFailed, bpc>>

pipeVars == <<env, env0, cfg, pc, result>>
batchVars == <<listing, todo, scene, outDirs, outFiles, calls, errLog,
               objExports, lastFailed, bpc>>

----------------------------------------------------------------------------
(* Bounds of the model *)

\* vertices of the source mesh before decimation
NVerts == 2
\* pairs of cage objects already in the scene when the pipeline starts
MaxPrior == 1
\* texture-image nodes already in the material when the pipeline starts
MaxTexNodes == 1
\* number of directory entries of the batch input folder
MaxFiles == 3
\* objects one GLB file holds
ObjsPerFile == 2

----------------------------------------------------------------------------
(* posixpath *)

RFindSep(p) ==
    IF \E i \in 1..Len(p) : p[i] = "/"
    THEN CHOOSE i \in 1..Len(p) :
            p[i] = "/" /\ \A j \in (i+1)..Len(p) : p[j] # "/"
    ELSE 0

AllSep(p) == \A i \in 1..Len(p) : p[i] = "/"

RECURSIVE RStripSep(_)
RStripSep(p) ==
    IF p # <<>> /\ p[Len(p)] = "/"
    THEN RStripSep(SubSeq(p, 1, Len(p) - 1))
    ELSE p

dirname(p) ==
    LET head == SubSeq(p, 1, RFindSep(p))
    IN  IF head # <<>> /\ ~AllSep(head) THEN RStripSep(head) ELSE head

basename(p) == SubSeq(p, RFindSep(p) + 1, Len(p))

join(a, b) ==
    IF b # <<>> /\ b[1] = "/" THEN b
    ELSE IF a = <<>> \/ a[Len(a)] = "/" THEN a \o b
    ELSE a \o <<"/">> \o b

exists(e, p) == p \in e.dirs \cup e.files

isdir(e, p) == p \in e.dirs

\* os.mkdir: the name is not empty, is not taken, and its parent exists
\* (an empty parent is the current directory).
MkdirOk(dirs, files, name) ==
    /\ name # <<>>
    /\ name \notin dirs \cup files
    /\ dirname(name) = <<>> \/ dirname(name) \in dirs

\* head, tail = path.split(name); if not tail: head, tail = path.split(head)
SplitHead(name) ==
    IF basename(name) = <<>> THEN dirname(dirname(name)) ELSE dirname(name)

SplitTail(name) ==
    IF basename(name) = <<>> THEN basename(dirname(name)) ELSE basename(name)

\* mkdir(name) once the ancestors are made; a failure leaves them in place
MkLeaf(up, files, name) ==
    IF ~up.ok THEN up
    ELSE IF MkdirOk(up.dirs, files, name)
    THEN [ok |-> TRUE, dirs |-> up.dirs \cup {name}]
    ELSE [ok |-> FALSE, dirs |-> up.dirs]

RECURSIVE makedirs(_, _, _)
makedirs(dirs, files, name) ==
    MkLeaf(IF /\ SplitHead(name) # <<>>
              /\ SplitTail(name) # <<>>
              /\ SplitHead(name) \notin dirs \cup files
           THEN makedirs(dirs, files, SplitHead(name))
           ELSE [ok |-> TRUE, dirs |-> dirs],
           files, name)

----------------------------------------------------------------------------
(* The host scene *)

NoObj == 0

Name(base, n) == [base |-> base, n |-> n]

\* bpy.data.objects.get(name): the handle of the object called name, or NoObj
Lookup(e, name) ==
    IF \E h \in 1..Len(e.objs) : e.objs[h].name = Name(name, 0)
    THEN CHOOSE h \in 1..Len(e.objs) : e.objs[h].name = Name(name, 0)
    ELSE NoObj

\* The host keeps object names unique: a name that is taken gets the first
\* free numeric suffix (.001, .002, ...).
RECURSIVE FreeSuffix(_, _, _, _)
FreeSuffix(objs, self, base, n) ==
    IF \E h \in 1..Len(objs) : h # self /\ objs[h].name = Name(base, n)
    THEN FreeSuffix(objs, self, base, n + 1)
    ELSE n

UniqueName(objs, self, base) == Name(base, FreeSuffix(objs, self, base, 0))

Selected(e) == {h \in 1..Len(e.objs) : e.objs[h].sel}

FullWeight == 10

Op(o, a) == [op |-> o, arg |-> a]

\* Python locals of the running call are named by "obj", "rig" and "cage".
Ref(e, r) ==
    CASE r = "obj" -> e.obj
      [] r = "rig" -> e.rig
      [] r = "cage" -> e.cage
      [] r = "active" -> e.active

Logged(e, o) == [e EXCEPT !.log = Append(@, [step |-> e.step, op |-> o.op])]

\* An exception is raised: err is the exception in flight, raisedAt the step
\* of the first raise of the call, raises the number of raises.
Raise(e, kind) ==
    [e EXCEPT !.err = kind,
              !.raisedAt = IF @ = 0 THEN e.step ELSE @,
              !.raises = @ + 1]

SetObj(e, h, rec) == [e EXCEPT !.objs[h] = rec]

----------------------------------------------------------------------------
(* Host operations, in the order prepare_for_roblox uses them *)

\* bpy.ops.object.transform_apply(scale=True): bakes the scale of the
\* selected objects into their geometry.
TransformApply(e) ==
    [e EXCEPT !.objs = [h \in 1..Len(e.objs) |->
        IF e.objs[h].sel
        THEN [e.objs[h] EXCEPT !.geom = @ * e.objs[h].scale, !.scale = 1]
        ELSE e.objs[h]]]

ModNames(m) == {m[i].name : i \in 1..Len(m)}

RECURSIVE FreeModSuffix(_, _, _)
FreeModSuffix(m, base, n) ==
    IF Name(base, n) \in ModNames(m) THEN FreeModSuffix(m, base, n + 1) ELSE n

\* obj.modifiers.new(name="Decimate", type='DECIMATE'); decimate_mod.ratio = r
ModifierNew(e, h, ratio) ==
    LET m == e.objs[h].mods
        nm == Name("Decimate", FreeModSuffix(m, "Decimate", 0))
    IN  SetObj(e, h, [e.objs[h] EXCEPT
            !.mods = Append(m, [name |-> nm, ratio |-> ratio])])

RemoveAt(s, i) == SubSeq(s, 1, i - 1) \o SubSeq(s, i + 1, Len(s))

\* bpy.ops.object.modifier_apply(modifier="Decimate") on the active object:
\* the ratio of the modifier of that name is baked into the mesh.
ModifierApply(e) ==
    LET h == e.active
        m == e.objs[h].mods
    IN  IF Name("Decimate", 0) \notin ModNames(m)
        THEN Raise(e, "HostError")
        ELSE LET i == CHOOSE j \in 1..Len(m) : m[j].name = Name("Decimate", 0)
                 n == (e.objs[h].nverts * m[i].ratio) \div 10
             IN  SetObj(e, h, [e.objs[h] EXCEPT
                    !.nverts = n,
                    !.decimated = @ + 1,
                    !.vgroups = [g \in DOMAIN @ |-> [v \in 1..n |-> @[g][v]]],
                    !.mods = RemoveAt(m, i)])

\* bpy.data.materials.new(name=material_name)
MaterialNew(e, name) ==
    [e EXCEPT !.mats = (name :> [texNodes |-> 0, link |-> 0, use_nodes |-> FALSE])
                       @@ @]

\* mat.node_tree.nodes.new('ShaderNodeTexImage')
NodeNew(e, name) == [e EXCEPT !.mats[name].texNodes = @ + 1]

\* mat.node_tree.links.new(tex_image.outputs["Color"],
\*                         principled_bsdf.inputs["Base Color"])
\* tex_image is the node just created; an input socket holds one link.
LinkNew(e, name) == [e EXCEPT !.mats[name].link = e.mats[name].texNodes]

\* SlotAssign that always appends the material
SlotAppend(e, h, name) ==
    SetObj(e, h, [e.objs[h] EXCEPT !.mats = Append(@, name)])

\* obj.data.materials[0] = mat, or obj.data.materials.append(mat)
SlotAssign(e, h, name) ==
    SetObj(e, h, [e.objs[h] EXCEPT
        !.mats = IF Len(@) > 0 THEN [@ EXCEPT ![1] = name] ELSE Append(@, name)])

\* bpy.ops.object.parent_set(type='ARMATURE'): every selected object other
\* than the active one becomes a child of the active object, deformed by it.
ParentSet(e) ==
    [e EXCEPT !.objs = [h \in 1..Len(e.objs) |->
        IF e.objs[h].sel /\ h # e.active
        THEN [e.objs[h] EXCEPT !.parent = e.active, !.deform = e.active]
        ELSE e.objs[h]]]

\* vg = o.vertex_groups.get(name); if vg is None: vg = o.vertex_groups.new(name)
VgEnsure(e, h, g) ==
    IF g \in DOMAIN e.objs[h].vgroups THEN e
    ELSE SetObj(e, h, [e.objs[h] EXCEPT
            !.vgroups = (g :> [v \in 1..e.objs[h].nverts |-> 0]) @@ @])

\* vg.add(range(len(o.data.vertices)), 1.0, 'REPLACE')
VgAdd(e, h, g) ==
    SetObj(e, h, [e.objs[h] EXCEPT
        !.vgroups[g] = [v \in 1..e.objs[h].nverts |-> FullWeight]])

\* bpy.ops.object.duplicate(): every selected object is copied, the copies
\* are selected instead of the originals, the copy of the active object
\* becomes active.
RECURSIVE DupFrom(_, _, _)
DupFrom(e, h, n0) ==
    IF h > n0 THEN e
    ELSE IF e.objs[h].sel
    THEN LET old == e.objs[h]
             copy == [old EXCEPT
                        !.name = Name(old.name.base,
                                      FreeSuffix(e.objs, NoObj, old.name.base, 1)),
                        !.fresh = TRUE]
         IN  DupFrom([e EXCEPT
                        !.objs = Append([@ EXCEPT ![h].sel = FALSE], copy),
                        !.active = IF @ = h THEN Len(e.objs) + 1 ELSE @],
                     h + 1, n0)
    ELSE DupFrom(e, h + 1, n0)

Duplicate(e) == DupFrom(e, 1, Len(e.objs))

\* cage.name = cage_name
Rename(e, h, base) ==
    SetObj(e, h, [e.objs[h] EXCEPT !.name = UniqueName(e.objs, h, base)])

\* bpy.ops.transform.resize(value=(f, f, f)) in edit mode: the selected
\* vertices of the edited (active) mesh are scaled; f is in percent.
Resize(e, f) ==
    LET h == e.active
    IN  IF e.objs[h].vsel
        THEN SetObj(e, h, [e.objs[h] EXCEPT !.geom = (@ * f) \div 100,
                                            !.resized = f])
        ELSE e

MadeDirs(e, r) ==
    IF r.ok THEN [e EXCEPT !.dirs = r.dirs]
    ELSE Raise([e EXCEPT !.dirs = r.dirs], "OSError")

\* os.makedirs(export_dir)
MakeDirs(e, p) == MadeDirs(e, makedirs(e.dirs, e.files, p))

\* bpy.ops.export_scene.fbx(filepath=p, use_selection=True, ...)
ExportFbx(e, p) ==
    IF dirname(p) # <<>> /\ dirname(p) \notin e.dirs
    THEN Raise(e, "HostError")
    ELSE [e EXCEPT !.exports = Append(@, [path |-> p, sel |-> Selected(e)]),
                   !.files = @ \cup {p}]

\* bpy.data.objects[name].select_set(True)
SelectName(e, name) ==
    IF Lookup(e, name) = NoObj THEN Raise(e, "KeyError")
    ELSE [e EXCEPT !.objs[Lookup(e, name)].sel = TRUE]

\* The effect of one statement of the pipeline on the host and the locals.
Effect(o, e) ==
    LET a == o.arg
    IN  CASE o.op = "raise" -> Raise(e, a)
          [] o.op = "bind" -> IF a[1] = "obj" THEN [e EXCEPT !.obj = a[2]]
                              ELSE [e EXCEPT !.rig = a[2]]
          [] o.op = "bind_cage" -> [e EXCEPT !.cage = e.active]
          [] o.op = "get_bsdf" -> e
          [] o.op = "set_active" -> [e EXCEPT !.active = Ref(e, a)]
          [] o.op = "mode_set" -> [e EXCEPT !.mode = a]
          [] o.op = "transform_apply" -> TransformApply(e)
          [] o.op = "modifier_new" -> ModifierNew(e, e.obj, a)
          [] o.op = "modifier_apply" -> ModifierApply(e)
          [] o.op = "mesh_select_all" -> [e EXCEPT !.objs[e.active].vsel = TRUE]
          [] o.op = "uv_smart_project" ->
                [e EXCEPT !.objs[e.active].uv = "SMART_PROJECT"]
          [] o.op = "uv_unwrap" -> [e EXCEPT !.objs[e.active].uv = "UNWRAP"]
          [] o.op = "material_new" -> MaterialNew(e, a)
          [] o.op = "use_nodes" -> [e EXCEPT !.mats[a].use_nodes = TRUE]
          [] o.op = "node_new" -> NodeNew(e, a)
          [] o.op = "image_load" -> [e EXCEPT !.images = @ + 1]
          [] o.op = "link_new" -> LinkNew(e, a)
          [] o.op = "slot_assign" -> SlotAssign(e, e.obj, a)
          [] o.op = "set_parent" ->
                [e EXCEPT !.objs[Ref(e, a)].parent = e.rig]
          [] o.op = "set_parent_type" ->
                [e EXCEPT !.objs[Ref(e, a)].ptype = "OBJECT"]
          [] o.op = "select_all" ->
                [e EXCEPT !.objs = [h \in 1..Len(e.objs) |->
                                      [e.objs[h] EXCEPT !.sel = FALSE]]]
          [] o.op = "select_set" -> [e EXCEPT !.objs[Ref(e, a)].sel = TRUE]
          [] o.op = "parent_set" -> ParentSet(e)
          [] o.op = "vg_ensure" -> VgEnsure(e, Ref(e, a[1]), a[2])
          [] o.op = "vg_add" -> VgAdd(e, Ref(e, a[1]), a[2])
          [] o.op = "duplicate" -> Duplicate(e)
          [] o.op = "rename" -> Rename(e, e.cage, a)
          [] o.op = "rename_data" ->
                [e EXCEPT !.objs[e.cage].data = a]
          [] o.op = "resize" -> Resize(e, a)
          [] o.op = "makedirs" -> MakeDirs(e, a)
          [] o.op = "select_name" -> SelectName(e, a)
          [] o.op = "export_fbx" -> ExportFbx(e, a)

\* Statements that only read, bind a local or raise: no host operation.
PureOps == {"raise", "bind", "bind_cage", "get_bsdf"}

\* Host operators and data calls that can raise on their own account
\* (a failed poll, an unreadable image, a node that is missing, an I/O error).
HostOperators ==
    {"mode_set", "transform_apply", "modifier_apply", "mesh_select_all",
     "uv_smart_project", "uv_unwrap", "get_bsdf", "image_load", "select_all",
     "parent_set", "duplicate", "resize", "makedirs", "export_fbx"}

Apply(o, e) ==
    LET e1 == Effect(o, e)
    IN  IF e1.err # "none" \/ o.op \in PureOps THEN e1 ELSE Logged(e1, o)

\* Runs the statements ops[i..] in order; statement k, a host operator,
\* raises instead of acting (k = 0: no host failure).  The first statement
\* that raises ends the run.
RECURSIVE RunFrom(_, _, _, _)
RunFrom(ops, i, e, k) ==
    IF i > Len(ops) \/ e.err # "none" THEN e
    ELSE IF i = k THEN Raise(e, "HostError")
    ELSE RunFrom(ops, i + 1, Apply(ops[i], e), k)

FailPoints(ops) == {0} \cup {k \in 1..Len(ops) : ops[k].op \in HostOperators}

----------------------------------------------------------------------------
(* Files and configurations *)

BlendFile == <<"/", "proj", "/", "scene.blend">>
TexOk == <<"/", "proj", "/", "tex.png">>
TexMissing == <<"/", "proj", "/", "nope.png">>
ExpDir == <<"/", "exp">>
ExpFile == <<"/", "exp", "/", "hat.fbx">>
DeepFile == <<"/", "new", "/", "sub", "/", "hat.fbx">>
BareFile == <<"hat.fbx">>

InitDirs == {<<"/">>, <<"/", "proj">>, ExpDir}
InitFiles == {BlendFile, TexOk}

NoRatio == [given |-> FALSE, v |-> 0]
Ratio(v) == [given |-> TRUE, v |-> v]

\* decimate_ratio in tenths: None, 0.5, 1.5 and -0.5
Ratios == {NoRatio, Ratio(5), Ratio(15), Ratio(-5)}
ObjectNames == {"MyHelmet", "Ghost", "R6"}
RigNames == {"R6", "Ghost", "MyHelmet"}
BoneNames == {"Head", "Neck"}
UnwrapMethods == {"SMART_PROJECT", "UNWRAP", "CUBE"}
\* texture_path: the empty sequence is a falsy value (None or "")
TexturePaths == {<<>>, TexOk, TexMissing}
ExportPaths == {<<>>, ExpDir, ExpFile, DeepFile, BareFile}

Configs ==
    [object_name : ObjectNames, rig_name : RigNames,
     head_bone_name : BoneNames, apply_scale : BOOLEAN,
     decimate_ratio : Ratios, export_path : ExportPaths,
     uv_unwrap_method : UnwrapMethods, texture_path : TexturePaths,
     material_name : {"RobloxMaterial"}]

NoConfig ==
    [object_name |-> "", rig_name |-> "", head_bone_name |-> "",
     apply_scale |-> FALSE, decimate_ratio |-> NoRatio, export_path |-> <<>>,
     uv_unwrap_method |-> "", texture_path |-> <<>>, material_name |-> ""]

----------------------------------------------------------------------------
(* The statements of prepare_for_roblox, step by step *)

\* ValidateOps with the active object set as soon as the mesh is resolved
ValidateOpsEager(c, e) ==
    LET o == Lookup(e, c.object_name)
        r == Lookup(e, c.rig_name)
    IN  IF o = NoObj \/ e.objs[o].kind # "MESH"
        THEN <<Op("raise", "ValueError")>>
        ELSE IF r = NoObj \/ e.objs[r].kind # "ARMATURE"
        THEN <<Op("bind", <<"obj", o>>), Op("set_active", "obj"),
               Op("raise", "ValueError")>>
        ELSE IF c.head_bone_name \notin e.objs[r].bones
        THEN <<Op("bind", <<"obj", o>>), Op("bind", <<"rig", r>>),
               Op("set_active", "obj"), Op("raise", "ValueError")>>
        ELSE <<Op("bind", <<"obj", o>>), Op("bind", <<"rig", r>>)>>

\* 1. Setup and Validation
ValidateOps(c, e) ==
    LET o == Lookup(e, c.object_name)
        r == Lookup(e, c.rig_name)
    IN  IF o = NoObj \/ e.objs[o].kind # "MESH"
        THEN <<Op("raise", "ValueError")>>
        ELSE IF r = NoObj \/ e.objs[r].kind # "ARMATURE"
        THEN <<Op("bind", <<"obj", o>>), Op("raise", "ValueError")>>
        ELSE IF c.head_bone_name \notin e.objs[r].bones
        THEN <<Op("bind", <<"obj", o>>), Op("bind", <<"rig", r>>),
               Op("raise", "ValueError")>>
        ELSE <<Op("bind", <<"obj", o>>), Op("bind", <<"rig", r>>)>>

\* 2. Object Mode Operations
ScaleOps(c) ==
    <<Op("set_active", "obj"), Op("mode_set", "OBJECT")>>
    \o (IF c.apply_scale THEN <<Op("transform_apply", "scale")>> ELSE <<>>)

RatioInRange(r) == 0 <= r.v /\ r.v <= 10

\* 3. Decimation (Optional)
DecimateOps(c) ==
    IF c.decimate_ratio.given
    THEN IF ~RatioInRange(c.decimate_ratio)
         THEN <<Op("raise", "ValueError")>>
         ELSE <<Op("modifier_new", c.decimate_ratio.v),
                Op("modifier_apply", "Decimate")>>
    ELSE <<>>

\* 4. UV Unwrapping
UnwrapOps(c) ==
    <<Op("set_active", "obj"), Op("mode_set", "EDIT"),
      Op("mesh_select_all", "SELECT")>>
    \o (IF c.uv_unwrap_method = "SMART_PROJECT"
        THEN <<Op("uv_smart_project", "")>>
        ELSE IF c.uv_unwrap_method = "UNWRAP"
        THEN <<Op("uv_unwrap", "")>>
        ELSE <<Op("raise", "ValueError")>>)
    \o <<Op("mode_set", "OBJECT")>>

\* 5. Basic Texture Handling
TextureOps(c, e) ==
    IF c.texture_path # <<>>
    THEN IF ~exists(e, c.texture_path)
         THEN <<Op("raise", "FileNotFoundError")>>
         ELSE (IF c.material_name \notin DOMAIN e.mats
               THEN <<Op("material_new", c.material_name)>> ELSE <<>>)
              \o <<Op("use_nodes", c.material_name),
                   Op("get_bsdf", c.material_name),
                   Op("node_new", c.material_name),
                   Op("image_load", c.texture_path),
                   Op("link_new", c.material_name),
                   Op("slot_assign", c.material_name)>>
    ELSE <<>>

\* 6. Rigging
RigOps(c) ==
    <<Op("set_parent", "obj"), Op("set_parent_type", "obj"),
      Op("select_all", "DESELECT"), Op("select_set", "rig"),
      Op("select_set", "obj"), Op("set_active", "rig"),
      Op("parent_set", "ARMATURE"), Op("select_all", "DESELECT"),
      Op("set_active", "obj"), Op("mode_set", "WEIGHT_PAINT"),
      Op("vg_ensure", <<"obj", c.head_bone_name>>),
      Op("mode_set", "EDIT"), Op("mesh_select_all", "SELECT"),
      Op("mode_set", "OBJECT"),
      Op("vg_add", <<"obj", c.head_bone_name>>),
      Op("mode_set", "WEIGHT_PAINT")>>

\* 7. Cage Creation: the nested function; scale_factor is in percent
create_cage(c, cage_name, scale_factor) ==
    <<Op("mode_set", "OBJECT"), Op("select_all", "DESELECT"),
      Op("select_set", "obj"), Op("set_active", "obj"),
      Op("duplicate", ""), Op("bind_cage", ""),
      Op("rename", cage_name), Op("rename_data", cage_name),
      Op("set_active", "cage"), Op("mode_set", "EDIT"),
      Op("resize", scale_factor), Op("mode_set", "OBJECT"),
      Op("set_parent", "cage"), Op("set_parent_type", "cage"),
      Op("select_all", "DESELECT"), Op("select_set", "rig"),
      Op("select_set", "cage"), Op("set_active", "rig"),
      Op("parent_set", "ARMATURE"), Op("set_active", "cage"),
      Op("vg_ensure", <<"cage", c.head_bone_name>>),
      Op("mode_set", "EDIT"), Op("mesh_select_all", "SELECT"),
      Op("mode_set", "OBJECT"),
      Op("vg_add", <<"cage", c.head_bone_name>>),
      Op("mode_set", "OBJECT"), Op("select_all", "DESELECT")>>

InnerFactor == 98
OuterFactor == 102

\* CageOps with the inner factor used for both cages
CageOpsSameFactor(c) ==
    create_cage(c, "InnerCage", InnerFactor)
    \o create_cage(c, "OuterCage", InnerFactor)

CageOps(c) ==
    create_cage(c, "InnerCage", InnerFactor)
    \o create_cage(c, "OuterCage", OuterFactor)

\* 8. FBX Export: the path the exporter is given
ExportPath(c, e) ==
    IF c.export_path = <<>>
    THEN dirname(e.filepath) \o <<"/">> \o <<c.object_name, ".fbx">>
    ELSE IF isdir(e, c.export_path)
    THEN join(c.export_path, <<c.object_name, ".fbx">>)
    ELSE c.export_path

\* export_dir = os.path.dirname(export_path); makedirs if it does not exist;
\* then the selection and the exporter
ExportOpsAt(e, export_path) ==
    (IF ~exists(e, dirname(export_path))
     THEN <<Op("makedirs", dirname(export_path))>> ELSE <<>>)
    \o <<Op("select_all", "DESELECT"), Op("select_set", "obj"),
         Op("select_set", "rig"), Op("select_name", "InnerCage"),
         Op("select_name", "OuterCage"), Op("export_fbx", export_path)>>

ExportOps(c, e) == ExportOpsAt(e, ExportPath(c, e))

----------------------------------------------------------------------------
(* The scene the pipeline is called in *)

Object(name, kind) ==
    [name |-> name, kind |-> kind, bones |-> {}, scale |-> 1, geom |-> 100,
     resized |-> 0, nverts |-> 0, decimated |-> 0, uv |-> "none",
     mats |-> <<>>, parent |-> NoObj, deform |-> NoObj, ptype |-> "NONE",
     vgroups |-> <<>>, sel |-> FALSE, vsel |-> FALSE, mods |-> <<>>,
     data |-> name.base, fresh |-> FALSE]

\* The mesh to prepare: scaled by two, either untouched and selected, or
\* carrying a material and a half-weight "Head" group and not selected.
InitMesh(used) ==
    [Object(Name("MyHelmet", 0), "MESH") EXCEPT
        !.scale = 2, !.nverts = NVerts, !.sel = ~used,
        !.mats = IF used THEN <<"OldMat">> ELSE <<>>,
        !.vgroups = IF used
                    THEN "Head" :> [v \in 1..NVerts |-> IF v = 1 THEN 5 ELSE 0]
                    ELSE <<>>]

InitRig == [Object(Name("R6", 0), "ARMATURE") EXCEPT !.bones = {"Head"}]

\* A cage an earlier run left in the scene; run p used the suffix p - 1.
PriorCage(base, f, p) ==
    [Object(Name(base, p - 1), "MESH") EXCEPT
        !.geom = f, !.resized = f, !.nverts = NVerts, !.parent = 2,
        !.deform = 2, !.ptype = "OBJECT", !.vsel = TRUE,
        !.vgroups = "Head" :> [v \in 1..NVerts |-> FullWeight]]

RECURSIVE PriorCages(_)
PriorCages(p) ==
    IF p = 0 THEN <<>>
    ELSE PriorCages(p - 1)
         \o <<PriorCage("InnerCage", InnerFactor, p),
              PriorCage("OuterCage", OuterFactor, p)>>

\* The material datablocks: "RobloxMaterial" is absent (n < 0) or has n
\* texture-image nodes, the last of them linked to Base Color.
InitMats(n) ==
    ("OldMat" :> [texNodes |-> 0, link |-> 0, use_nodes |-> FALSE])
    @@ (IF n < 0 THEN <<>>
        ELSE "RobloxMaterial" :>
                [texNodes |-> n, link |-> n, use_nodes |-> TRUE])

InitEnv(prior, n, used) ==
    [objs |-> <<InitMesh(used), InitRig>> \o PriorCages(prior),
     active |-> NoObj, mode |-> "OBJECT", mats |-> InitMats(n),
     images |-> IF n < 0 THEN 0 ELSE n,
     dirs |-> InitDirs, files |-> InitFiles,
     filepath |-> IF used THEN <<>> ELSE BlendFile,
     exports |-> <<>>, obj |-> NoObj, rig |-> NoObj, cage |-> NoObj,
     err |-> "none", raisedAt |-> 0, raises |-> 0, step |-> 0, log |-> <<>>]

InitPipe ==
    /\ \E prior \in 0..MaxPrior, n \in -1..MaxTexNodes, used \in BOOLEAN :
            env = InitEnv(prior, n, used)
    /\ env0 = env
    /\ cfg = NoConfig
    /\ pc = "idle"
    /\ result = "none"

----------------------------------------------------------------------------
(* prepare_for_roblox *)

\* NextPc of a try block that swallows the exception and goes on
NextPcContinue(err, next) == next

\* try/except: an exception in flight sends control to the except clause
NextPc(err, next) == IF err # "none" THEN "except" ELSE next

\* One step of the try block: its statements run in order until one raises.
Step(ops, n, next) ==
    \E k \in FailPoints(ops) :
        LET e == RunFrom(ops, 1, [env EXCEPT !.step = n, !.err = "none"], k)
        IN  /\ env' = e
            /\ pc' = NextPc(e.err, next)
            /\ UNCHANGED <<env0, cfg, result>>
            /\ UNCHANGED batchVars

Call ==
    /\ pc = "idle"
    /\ \E c \in Configs : cfg' = c
    /\ env0' = env
    /\ pc' = "validate"
    /\ UNCHANGED <<env, result>>
    /\ UNCHANGED batchVars

Validate ==
    /\ pc = "validate"
    /\ Step(ValidateOps(cfg, env), 1, "scale")

NormalizeTransform ==
    /\ pc = "scale"
    /\ Step(ScaleOps(cfg), 2, "decimate")

Decimate ==
    /\ pc = "decimate"
    /\ Step(DecimateOps(cfg), 3, "unwrap")

UvUnwrap ==
    /\ pc = "unwrap"
    /\ Step(UnwrapOps(cfg), 4, "texture")

Texture ==
    /\ pc = "texture"
    /\ Step(TextureOps(cfg, env), 5, "rig")

Rig ==
    /\ pc = "rig"
    /\ Step(RigOps(cfg), 6, "cages")

CageCreation ==
    /\ pc = "cages"
    /\ Step(CageOps(cfg), 7, "export")

Export ==
    /\ pc = "export"
    /\ Step(ExportOps(cfg, env), 8, "return")

\* print(f"Successfully exported to: {export_path}"); return True
ReturnTrue ==
    /\ pc = "return"
    /\ result' = "True"
    /\ pc' = "done"
    /\ UNCHANGED <<env, env0, cfg>>
    /\ UNCHANGED batchVars

\* except Exception as e: print(f"Error: {e}"); return False
Except ==
    /\ pc = "except"
    /\ result' = "False"
    /\ pc' = "done"
    /\ UNCHANGED <<env, env0, cfg>>
    /\ UNCHANGED batchVars

NextPipe ==
    \/ Call
    \/ Validate
    \/ NormalizeTransform
    \/ Decimate
    \/ UvUnwrap
    \/ Texture
    \/ Rig
    \/ CageCreation
    \/ Export
    \/ ReturnTrue
    \/ Except

InitBatchIdle ==
    /\ listing = {}
    /\ todo = {}
    /\ scene = {}
    /\ outDirs = {}
    /\ outFiles = <<>>
    /\ calls = <<>>
    /\ errLog = <<>>
    /\ objExports = {}
    /\ lastFailed = FALSE
    /\ bpc = "idle"

Init == InitPipe /\ InitBatchIdle

Spec == Init /\ [][NextPipe]_vars

----------------------------------------------------------------------------
(* glbtoobj.py: file names are sequences of tokens, "." is the extension   *)
(* separator, every other token is a run of letters.                       *)

lower(t) ==
    CASE t = "GLB" -> "glb"
      [] t = "Glb" -> "glb"
      [] OTHER -> t

Lower(name) == [i \in 1..Len(name) |-> lower(name[i])]

\* filename.lower().endswith(".glb")
EndsWithGlb(name) ==
    /\ Len(name) >= 2
    /\ Lower(name)[Len(name) - 1] = "."
    /\ Lower(name)[Len(name)] = "glb"

RFindDot(name) ==
    IF \E i \in 1..Len(name) : name[i] = "."
    THEN CHOOSE i \in 1..Len(name) :
            name[i] = "." /\ \A j \in (i+1)..Len(name) : name[j] # "."
    ELSE 0

\* os.path.splitext(filename)[0]: the name up to its last dot, unless only
\* dots precede that dot
SplitextRoot(name) ==
    IF RFindDot(name) > 0 /\ \E i \in 1..(RFindDot(name) - 1) : name[i] # "."
    THEN SubSeq(name, 1, RFindDot(name) - 1)
    ELSE name

InFolder == <<"in">>
OutFolder == <<"out">>

\* glb_path and obj_path of one directory entry
GlbPath(filename) == join(InFolder, filename)
ObjPath(filename) == join(OutFolder, SplitextRoot(filename) \o <<".", "obj">>)

FileNames ==
    {<<"a", ".", "glb">>, <<"a", ".", "GLB">>, <<"b", ".", "Glb">>,
     <<"c", ".", "obj">>, <<"d", ".", "glb", ".", "txt">>, <<".", "glb">>}

Listings == {l \in SUBSET FileNames : Cardinality(l) <= MaxFiles}

\* The objects of the scene Blender starts with: one visible, one hidden
StartupScene ==
    {[src |-> <<"startup">>, id |-> 1, hidden |-> FALSE, sel |-> FALSE],
     [src |-> <<"startup">>, id |-> 2, hidden |-> TRUE, sel |-> FALSE]}

\* What bpy.ops.import_scene.gltf adds for one file: the first n objects
GltfObjects(glb, n) ==
    {[src |-> glb, id |-> i, hidden |-> FALSE, sel |-> TRUE] : i \in 1..n}

\* bpy.ops.object.select_all(action='SELECT'): the visible objects
SelectAll(sc) == {[o EXCEPT !.sel = ~o.hidden] : o \in sc}

\* bpy.ops.object.delete(use_global=False): the selected objects
DeleteSelected(sc) == {o \in sc : ~o.sel}

\* ConvertOps without the clearing of the scene
ConvertOpsNoClear == <<"import_gltf", "select_all", "export_obj">>

\* The statements of the try block of convert_glb_to_obj
ConvertOps == <<"select_all", "delete", "import_gltf", "select_all", "export_obj">>

\* The effect of one statement on b = [scene, out, imported, exported, err]
ConvertEffect(op, b, glb, objp) ==
    CASE op = "select_all" -> [b EXCEPT !.scene = SelectAll(@)]
      [] op = "delete" -> [b EXCEPT !.scene = DeleteSelected(@)]
      [] op = "import_gltf" ->
            [b EXCEPT !.scene = {[o EXCEPT !.sel = FALSE] : o \in @}
                                \cup GltfObjects(glb, ObjsPerFile),
                      !.imported = GltfObjects(glb, ObjsPerFile)]
      [] op = "export_obj" ->
            [b EXCEPT !.out = (objp :> {o \in b.scene : o.sel}) @@ @,
                      !.exported = <<{o \in b.scene : o.sel}>>]

\* A host operator that raises does nothing, except the importer, which may
\* have added part of the file's objects by then.
ConvertRaise(op, b, glb, part) ==
    IF op = "import_gltf"
    THEN [b EXCEPT !.scene = @ \cup GltfObjects(glb, part),
                   !.imported = GltfObjects(glb, part), !.err = TRUE]
    ELSE [b EXCEPT !.err = TRUE]

RECURSIVE ConvertFrom(_, _, _, _, _, _, _)
ConvertFrom(ops, i, b, glb, objp, k, part) ==
    IF i > Len(ops) \/ b.err THEN b
    ELSE IF i = k THEN ConvertRaise(ops[i], b, glb, part)
    ELSE ConvertFrom(ops, i + 1, ConvertEffect(ops[i], b, glb, objp),
                     glb, objp, k, part)

\* convert_glb_to_obj(glb_filepath, obj_filepath): statement k raises
\* (k = 0: none), the except clause catches it
convert_glb_to_obj(sc, out, glb, objp, k, part) ==
    ConvertFrom(ConvertOps, 1,
                [scene |-> sc, out |-> out, imported |-> {},
                 exported |-> <<>>, err |-> FALSE],
                glb, objp, k, part)

InitBatch ==
    /\ env = InitEnv(0, -1, FALSE)
    /\ env0 = env
    /\ cfg = NoConfig
    /\ pc = "idle"
    /\ result = "none"
    /\ listing \in Listings
    /\ todo = {}
    /\ scene = StartupScene
    /\ outDirs \in {{}, {OutFolder}}
    /\ outFiles = <<>>
    /\ calls = [f \in listing |-> 0]
    /\ errLog = [f \in listing |-> 0]
    /\ objExports = {}
    /\ lastFailed = FALSE
    /\ bpc = "start"

\* if not os.path.exists(output_folder): os.makedirs(output_folder)
\* for filename in os.listdir(input_folder):
BatchStart ==
    /\ bpc = "start"
    /\ outDirs' = IF OutFolder \in outDirs THEN outDirs
                  ELSE makedirs(outDirs, {}, OutFolder).dirs
    /\ todo' = listing
    /\ bpc' = "loop"
    /\ UNCHANGED <<listing, scene, outFiles, calls, errLog, objExports, lastFailed>>
    /\ UNCHANGED pipeVars

\* One iteration of the loop on an entry that is no GLB file
Skip ==
    /\ bpc = "loop"
    /\ \E f \in todo :
        /\ ~EndsWithGlb(f)
        /\ todo' = todo \ {f}
    /\ UNCHANGED <<listing, scene, outDirs, outFiles, calls, errLog,
                   objExports, lastFailed, bpc>>
    /\ UNCHANGED pipeVars

\* One iteration of the loop on a GLB file: the call of convert_glb_to_obj
Convert ==
    /\ bpc = "loop"
    /\ \E f \in todo, k \in 0..Len(ConvertOps), part \in 0..1 :
        /\ EndsWithGlb(f)
        /\ part = 0 \/ k = 3
        /\ LET b == convert_glb_to_obj(scene, outFiles, GlbPath(f), ObjPath(f),
                                       k, part)
           IN  /\ scene' = b.scene
               /\ outFiles' = b.out
               /\ calls' = [calls EXCEPT ![f] = @ + 1]
               /\ errLog' = [errLog EXCEPT ![f] = IF b.err THEN @ + 1 ELSE @]
               /\ objExports' =
                    IF b.exported = <<>> THEN objExports
                    ELSE objExports \cup
                         {[file |-> GlbPath(f), path |-> ObjPath(f),
                           objs |-> b.exported[1], imported |-> b.imported,
                           afterFailure |-> lastFailed]}
               /\ lastFailed' = (b.err /\ b.imported # {})
        /\ todo' = todo \ {f}
    /\ UNCHANGED <<listing, outDirs, bpc>>
    /\ UNCHANGED pipeVars

BatchEnd ==
    /\ bpc = "loop"
    /\ todo = {}
    /\ bpc' = "done"
    /\ UNCHANGED <<listing, todo, scene, outDirs, outFiles, calls, errLog,
                   objExports, lastFailed>>
    /\ UNCHANGED pipeVars

NextBatch ==
    \/ BatchStart
    \/ Skip
    \/ Convert
    \/ BatchEnd

SpecBatch == InitBatch /\ [][NextBatch]_vars

----------------------------------------------------------------------------
(* Properties of prepare_for_roblox *)

\* The host state a call can mutate: scene, datablocks, file system, exports
Scene(e) ==
    [objs |-> e.objs, active |-> e.active, mode |-> e.mode, mats |-> e.mats,
     images |-> e.images, dirs |-> e.dirs, files |-> e.files,
     exports |-> e.exports]

HasOp(lg, op) == \E i \in 1..Len(lg) : lg[i].op = op

Called == pc # "idle"

\* object_name or rig_name names no object or one of the wrong kind, or
\* head_bone_name is no bone of the armature, in the scene at the call
InvalidNames ==
    \/ ~\E h \in 1..Len(env0.objs) :
            /\ env0.objs[h].name = Name(cfg.object_name, 0)
            /\ env0.objs[h].kind = "MESH"
    \/ ~\E h \in 1..Len(env0.objs) :
            /\ env0.objs[h].name = Name(cfg.rig_name, 0)
            /\ env0.objs[h].kind = "ARMATURE"
            /\ cfg.head_bone_name \in env0.objs[h].bones

\* C1: a call whose object_name or rig_name names no object of the right
\* kind, or whose head_bone_name is no bone of the armature, never gets past
\* validation, executes no scene-mutating host operation, leaves the scene
\* as it was at the call and returns False.
C1_InvalidNamesNoMutation ==
    (Called /\ InvalidNames) =>
        /\ pc \in {"validate", "except", "done"}
        /\ env.log = <<>>
        /\ Scene(env) = Scene(env0)
        /\ pc = "done" => result = "False"

\* C1 witness: calls returned False for a missing mesh, for a rig of the
\* wrong kind and for a missing bone (here: the missing bone).
C1_Witness ==
    /\ pc = "done" /\ result = "False"
    /\ cfg.object_name = "MyHelmet" /\ cfg.rig_name = "R6"
    /\ cfg.head_bone_name = "Neck"
    /\ env.raisedAt = 1

C3_MethodErrorBeforeGeometry ==
    (env.step = 4 /\ env.err = "ValueError") =>
        /\ ~HasOp(env.log, "transform_apply")
        /\ ~HasOp(env.log, "modifier_apply")

\* The steps a successful run cannot skip
MandatorySteps == {2, 4, 6, 7, 8}

C4_State ==
    /\ \A i, j \in 1..Len(env.log) :
            i <= j => env.log[i].step <= env.log[j].step
    /\ env.raisedAt # 0 =>
            /\ \A i \in 1..Len(env.log) : env.log[i].step <= env.raisedAt
            /\ ~HasOp(env.log, "export_fbx")
            /\ env.exports = env0.exports
            /\ pc \in {"except", "done"}
            /\ pc = "done" => result = "False"
    /\ result = "True" =>
            /\ env.raises = 0
            /\ \A n \in MandatorySteps :
                    \E i \in 1..Len(env.log) : env.log[i].step = n
            /\ env.log[Len(env.log)].op = "export_fbx"
            /\ Len(env.exports) = Len(env0.exports) + 1
    /\ result = "False" => env.raisedAt # 0

\* C4: once a step raises, no operation of a later step is executed, the
\* exporter is never invoked and the call returns False; the except clause
\* leaves every mutation made so far in the scene; the call returns True
\* only if no step raised, the steps ran in order and the exporter was
\* invoked.
C4_AbortOnFirstError ==
    /\ []C4_State
    /\ [][pc = "except" => (env' = env /\ result' = "False")]_vars

\* C4 witness: a call that failed in the texture step after the scale was
\* baked returned False with the bake still in the scene.
C4_Witness ==
    /\ pc = "done" /\ result = "False"
    /\ env.raisedAt = 5
    /\ HasOp(env.log, "transform_apply")
    /\ env.objs[env.obj].scale = 1
    /\ env0.objs[env.obj].scale = 2

\* The objects this call created
Fresh == {h \in 1..Len(env.objs) : env.objs[h].fresh}

FullGroup(h) ==
    /\ cfg.head_bone_name \in DOMAIN env.objs[h].vgroups
    /\ \A v \in 1..env.objs[h].nverts :
            env.objs[h].vgroups[cfg.head_bone_name][v] = FullWeight

\* h is a cage of this call made with factor f (percent) and called base
\* with numeric suffix n
IsCage(h, base, f) ==
    /\ env.objs[h].name.base = base
    /\ env.objs[h].kind = "MESH"
    /\ env.objs[h].resized = f
    /\ env.objs[h].geom * 100 = env.objs[env.obj].geom * f
    /\ env.objs[h].parent = env.rig
    /\ env.objs[h].deform = env.rig
    /\ FullGroup(h)

ExportedOnce ==
    /\ Len(env.exports) = Len(env0.exports) + 1
    /\ env.exports[Len(env.exports)].path = ExportPath(cfg, env0)

\* C5 as stated: a run that returns True leaves exactly two objects created
\* by it, named InnerCage (scaled 0.98) and OuterCage (scaled 1.02), each
\* parented to the armature with a full-weight head-bone group, as has the
\* source object, and the exporter was invoked once at the computed path.
C5_TwoNamedCages ==
    result = "True" =>
        /\ Cardinality(Fresh) = 2
        /\ \E i, o \in Fresh :
            /\ IsCage(i, "InnerCage", InnerFactor)
            /\ env.objs[i].name.n = 0
            /\ IsCage(o, "OuterCage", OuterFactor)
            /\ env.objs[o].name.n = 0
        /\ FullGroup(env.obj)
        /\ ExportedOnce

NameTaken(base) ==
    \E h \in 1..Len(env0.objs) : env0.objs[h].name = Name(base, 0)

NameUnique(h) ==
    \A g \in 1..Len(env.objs) : g # h => env.objs[g].name # env.objs[h].name

\* C5 amended: as C5, but a cage is called InnerCage (OuterCage) exactly when
\* no object of that name was in the scene at the call; otherwise it carries
\* that name with a numeric suffix that makes it unique.
C5_TwoCagesAmended ==
    result = "True" =>
        /\ Cardinality(Fresh) = 2
        /\ \E i, o \in Fresh :
            /\ IsCage(i, "InnerCage", InnerFactor)
            /\ env.objs[i].name.n = 0 <=> ~NameTaken("InnerCage")
            /\ NameUnique(i)
            /\ IsCage(o, "OuterCage", OuterFactor)
            /\ env.objs[o].name.n = 0 <=> ~NameTaken("OuterCage")
            /\ NameUnique(o)
        /\ FullGroup(env.obj)
        /\ ExportedOnce

\* C5 witness: a successful run with decimation 0.5 and an existing texture
\* in a scene that already held cages.
C5_Witness ==
    /\ result = "True"
    /\ cfg.decimate_ratio = Ratio(5)
    /\ cfg.texture_path = TexOk
    /\ NameTaken("InnerCage")
    /\ Cardinality(Fresh) = 2

\* C6: the selection handed to the exporter is the source mesh, the
\* armature and the two cages duplicated by this call.
C6_ExportsOwnCages ==
    HasOp(env.log, "export_fbx") =>
        env.exports[Len(env.exports)].sel = {env.obj, env.rig} \cup Fresh

\* The directory of the resolved export path exists (the empty directory
\* part is the current directory)
ExportDirExists ==
    \/ dirname(ExportPath(cfg, env0)) = <<>>
    \/ dirname(ExportPath(cfg, env0)) \in env.dirs

\* C7: step 8 resolves the export path as documented, never fails on
\* directory creation, and the directory of the resolved path exists when
\* the exporter is invoked.
C7_ExportDirCreated ==
    env.step = 8 =>
        /\ env.err # "OSError"
        /\ HasOp(env.log, "export_fbx") =>
            /\ ExportDirExists
            /\ env.exports[Len(env.exports)].path =
                    IF cfg.export_path = <<>>
                    THEN dirname(env0.filepath)
                         \o <<"/", cfg.object_name, ".fbx">>
                    ELSE IF cfg.export_path \in env0.dirs
                    THEN cfg.export_path \o <<"/", cfg.object_name, ".fbx">>
                    ELSE cfg.export_path

TextureGiven == cfg.texture_path # <<>>

TextureDone == env.step = 5 /\ pc = "rig" /\ TextureGiven

NodesBefore ==
    IF cfg.material_name \in DOMAIN env0.mats
    THEN env0.mats[cfg.material_name].texNodes
    ELSE 0

SlotRule ==
    /\ env.objs[env.obj].mats[1] = cfg.material_name
    /\ Len(env.objs[env.obj].mats) =
            IF Len(env0.objs[env.obj].mats) > 0
            THEN Len(env0.objs[env.obj].mats) ELSE 1
    /\ \A i \in 2..Len(env.objs[env.obj].mats) :
            env.objs[env.obj].mats[i] = env0.objs[env.obj].mats[i]

MissingTextureRule ==
    (env.step = 5 /\ TextureGiven /\ cfg.texture_path \notin env0.files) =>
        /\ env.err = "FileNotFoundError"
        /\ env.mats = env0.mats
        /\ env.images = env0.images
        /\ env.objs[env.obj].mats = env0.objs[env.obj].mats

\* C9 as stated: step 5 gets or creates the material, creates or reuses its
\* texture-image node (a material that had one keeps exactly that one), has
\* it linked to Base Color, and puts the material in slot 0 (overwriting or,
\* on an empty list, appending); a missing file fails before any change.
C9_TextureNodeReused ==
    /\ TextureDone =>
        /\ cfg.material_name \in DOMAIN env.mats
        /\ env.mats[cfg.material_name].texNodes =
                IF NodesBefore > 0 THEN NodesBefore ELSE 1
        /\ env.mats[cfg.material_name].link >= 1
        /\ SlotRule
    /\ MissingTextureRule

\* C9 amended: step 5 gets or creates the material and always creates a new
\* texture-image node, which becomes the one node linked to Base Color (a
\* second run on the same material adds a second node); the slot and the
\* missing-file rules are as stated.
C9_TextureNodeAdded ==
    /\ TextureDone =>
        /\ cfg.material_name \in DOMAIN env.mats
        /\ env.mats[cfg.material_name].use_nodes
        /\ env.mats[cfg.material_name].texNodes = NodesBefore + 1
        /\ env.mats[cfg.material_name].link = NodesBefore + 1
        /\ SlotRule
    /\ MissingTextureRule

\* C9 witness: the step ran on a material that already had a texture-image
\* node and on an object that already had a material.
C9_Witness ==
    /\ TextureDone
    /\ NodesBefore > 0
    /\ Len(env0.objs[env.obj].mats) > 0
    /\ env.objs[env.obj].mats = <<cfg.material_name>>

----------------------------------------------------------------------------
(* Properties of batch_convert_glb_to_obj *)

Matching == {f \in listing : EndsWithGlb(f)}

AllConverted == \A f \in Matching : calls[f] = 1 /\ errLog[f] = 0

\* C8: at the end of the batch every matching entry was converted exactly
\* once and no other entry was; a conversion that raised is logged once and
\* the others are still processed; when every conversion succeeded there
\* are exactly as many output files as matching entries.
C8_OneOutputPerMatch ==
    bpc = "done" =>
        /\ \A f \in listing : calls[f] = IF f \in Matching THEN 1 ELSE 0
        /\ \A f \in listing : errLog[f] <= calls[f]
        /\ AllConverted => Cardinality(DOMAIN outFiles) = Cardinality(Matching)

\* C10: every export of a batch run holds exactly the objects imported from
\* its own file, also right after a conversion that failed after its
\* import; no object of another file or of the startup scene is in it.
C10_NoCrossFileState ==
    /\ \A x \in objExports :
        /\ x.objs = x.imported
        /\ \A o \in x.objs : o.src = x.file
    /\ \A p \in DOMAIN outFiles :
        \E f \in Matching :
            /\ p = ObjPath(f)
            /\ \A o \in outFiles[p] : o.src = GlbPath(f)

\* C10 witness: a file was exported right after a conversion that raised
\* after its import had put objects into the scene.
C10_Witness ==
    \E x \in objExports :
        /\ x.afterFailure
        /\ Cardinality(x.objs) = ObjsPerFile

====
